---------------------------- MODULE Spec2Model ----------------------------
(***************************************************************************)
(* A model of the console tic-tac-toe game of src/game.py: the GameBoard   *)
(* list subclass with its status property, handle_player_turn and setup.   *)
(*                                                                         *)
(* Python values are modelled as follows.  None is the string "None".      *)
(* A str that the program only compares or prints whole (a mark, a cell    *)
(* label, a status) is a TLA+ string.  A str that the program takes apart  *)
(* (a line read by input()) is a sequence of one-character strings.  A     *)
(* list is a sequence, so Python's b[i] is b[i + 1] here.                  *)
(***************************************************************************)
EXTENDS Integers, Sequences, FiniteSets, TLC

VARIABLES
    pc,              \* where setup() stands (see the actions)
    player1_name,    \* setup: player1_name
    player1_mark,    \* setup: player1_mark, later player1.mark
    player2_name,    \* setup: player2_name
    player2_mark,    \* setup: player2_mark, later player2.mark
    board,           \* the GameBoard instance's list contents, <<>> before it exists
    winner_attr,     \* the instance attribute board.winner, Unset while there is none
    current_player,  \* setup: current_player, "player1" or "player2"
    status_value,    \* what the last evaluation of board.status returned
    console,         \* the kind of the last message printed about an input
    mover,           \* the player of the last handle_player_turn call that returned
    announced,       \* the final announcement, None before it
    mark_errors,     \* how many times the mark loop printed "Invalid mark." (while
                     \* the loop's result is pending; cleared when setup goes on)
    class_winner,    \* the class attribute GameBoard.winner
    other_winner_attr \* the instance attribute winner of a second GameBoard
                     \* instance, NoInstance while there is none

vars == <<pc, player1_name, player1_mark, player2_name, player2_mark, board,
          winner_attr, current_player, status_value, console, mover, announced,
          mark_errors, class_winner, other_winner_attr>>

None == "None"
Unset == "Unset"
NoInstance == "NoInstance"

(***************************************************************************)
(* Bounds of the model.                                                    *)
(***************************************************************************)
\* integers typed as coordinates range over -MaxOver .. 2 + MaxOver
MaxOver == 1
\* a line with more than two fields has at most MaxFields fields
MaxFields == 3
\* at most this many lines are rejected at the mark prompt in one run
MaxMarkRetries == 2

(***************************************************************************)
(* GameBoard                                                               *)
(***************************************************************************)
\* range(3)
Range3 == 0 .. 2

\* f"{i},{j}": the label of a cell
Label(i, j) == ToString(i) \o "," \o ToString(j)

\* winning_combinations with a slip in the last triple (2,2 for 2,0)
winning_combinations_typo ==
    << <<"0,0", "0,1", "0,2">>,
       <<"1,0", "1,1", "1,2">>,
       <<"2,0", "2,1", "2,2">>,
       <<"0,0", "1,0", "2,0">>,
       <<"0,1", "1,1", "2,1">>,
       <<"0,2", "1,2", "2,2">>,
       <<"0,0", "1,1", "2,2">>,
       <<"0,2", "1,1", "2,2">> >>

winning_combinations ==
    << <<"0,0", "0,1", "0,2">>,
       <<"1,0", "1,1", "1,2">>,
       <<"2,0", "2,1", "2,2">>,
       <<"0,0", "1,0", "2,0">>,
       <<"0,1", "1,1", "2,1">>,
       <<"0,2", "1,2", "2,2">>,
       <<"0,0", "1,1", "2,2">>,
       <<"0,2", "1,1", "2,0">> >>

\* GameBoard.winner = None: the value the class attribute is created with
GameBoard_winner == None

\* GameBoard.__init__ with "" for one None
GameBoardInit_EmptyStr == << <<None, None, None>>, <<None, "", None>>, <<None, None, None>> >>

\* GameBoard.__init__: the list is initialised with three rows of None
GameBoardInit == << <<None, None, None>>, <<None, None, None>>, <<None, None, None>> >>

\* list indexing x[k] of a list of length 3: a negative index counts from
\* the end, anything outside -3 .. 2 raises IndexError
ListIndexOK(k) == k \in -3 .. 2
ListGet(x, k) == IF k < 0 THEN x[k + 3 + 1] ELSE x[k + 1]

\* self[i][j]
Cell(b, i, j) == ListGet(ListGet(b, i), j)

\* set(l) of a list l
SetOf(l) == {l[k] : k \in 1 .. Len(l)}

\* the first loop of status: value_X, value_O (as the sets the second loop
\* makes of them) and free_cell_exists
value_X(b) == {Label(i, j) : <<i, j>> \in {c \in Range3 \X Range3 : Cell(b, c[1], c[2]) = "X"}}
value_O(b) == {Label(i, j) : <<i, j>> \in {c \in Range3 \X Range3 : Cell(b, c[1], c[2]) = "O"}}
free_cell_exists(b) == \E i \in Range3, j \in Range3 : Cell(b, i, j) = None

\* the second loop of status without its elif branch
RECURSIVE ScanCombinations_OnlyO(_, _, _)
ScanCombinations_OnlyO(vO, vX, k) ==
    IF k > Len(winning_combinations) THEN None
    ELSE IF SetOf(winning_combinations[k]) \subseteq vO THEN "O"
    ELSE ScanCombinations_OnlyO(vO, vX, k + 1)

\* the second loop of status over the three rows only
RECURSIVE ScanCombinations_RowsOnly(_, _, _)
ScanCombinations_RowsOnly(vO, vX, k) ==
    IF k > 3 THEN None
    ELSE IF SetOf(winning_combinations[k]) \subseteq vO THEN "O"
    ELSE IF SetOf(winning_combinations[k]) \subseteq vX THEN "X"
    ELSE ScanCombinations_RowsOnly(vO, vX, k + 1)

\* the second loop of status as two loops: all combinations for O, then
\* all combinations for X
ScanCombinations_OThenX(vO, vX, k) ==
    IF \E j \in k .. Len(winning_combinations) :
           SetOf(winning_combinations[j]) \subseteq vO THEN "O"
    ELSE IF \E j \in k .. Len(winning_combinations) :
           SetOf(winning_combinations[j]) \subseteq vX THEN "X"
    ELSE None

\* the second loop of status from the k-th combination on, given the two
\* lists of the first loop: the mark of the first combination that is a
\* subset of one mark's cells, O tried before X, None when the loop falls
\* through
RECURSIVE ScanCombinations(_, _, _)
ScanCombinations(vO, vX, k) ==
    IF k > Len(winning_combinations) THEN None
    ELSE IF SetOf(winning_combinations[k]) \subseteq vO THEN "O"
    ELSE IF SetOf(winning_combinations[k]) \subseteq vX THEN "X"
    ELSE ScanCombinations(vO, vX, k + 1)

\* status with the test of free_cell_exists inverted
Status_FullPending(b, w) ==
    LET hit == ScanCombinations(value_O(b), value_X(b), 1) IN
    IF hit # None THEN [value |-> "Complete", winner |-> hit]
    ELSE IF free_cell_exists(b) THEN [value |-> "Complete", winner |-> w]
    ELSE [value |-> "Pending", winner |-> w]

\* status without the return after the winner is recorded
Status_NoReturn(b, w) ==
    LET hit == ScanCombinations(value_O(b), value_X(b), 1)
        rec == IF hit # None THEN hit ELSE w IN
    IF ~free_cell_exists(b) THEN [value |-> "Complete", winner |-> rec]
    ELSE [value |-> "Pending", winner |-> rec]

\* status with the test for a full board made before the combinations
Status_FullFirst(b, w) ==
    LET hit == ScanCombinations(value_O(b), value_X(b), 1) IN
    IF ~free_cell_exists(b) THEN [value |-> "Complete", winner |-> w]
    ELSE IF hit # None THEN [value |-> "Complete", winner |-> hit]
    ELSE [value |-> "Pending", winner |-> w]

\* the status property on a board with list contents b and instance
\* attribute w: the value returned and the instance attribute afterwards
Status(b, w) ==
    LET hit == ScanCombinations(value_O(b), value_X(b), 1) IN
    IF hit # None THEN [value |-> "Complete", winner |-> hit]
    ELSE IF ~free_cell_exists(b) THEN [value |-> "Complete", winner |-> w]
    ELSE [value |-> "Pending", winner |-> w]

\* reading board.winner: the instance attribute, else the class attribute
ReadWinner(w) == IF w = Unset THEN class_winner ELSE w

\* the winner bound on the class instead of on self
AssignWinner_OnClass(st) ==
    [instance |-> winner_attr,
     class    |-> IF st.winner = winner_attr THEN class_winner ELSE st.winner]

\* lines 55-60: self.winner = mark binds the attribute in the instance on
\* which status was read and leaves the class attribute as it is; st is the
\* outcome of Status on that instance
AssignWinner(st) == [instance |-> st.winner, class |-> class_winner]


(***************************************************************************)
(* Text: str.split, int, str.upper on lines over the characters            *)
(* 0-9 - + , space a-z A-Z that the model's inputs are made of.            *)
(***************************************************************************)
Digits == <<"0", "1", "2", "3", "4", "5", "6", "7", "8", "9">>
IsDigit(c) == \E d \in 1 .. Len(Digits) : Digits[d] = c
DigitValue(c) == (CHOOSE d \in 1 .. Len(Digits) : Digits[d] = c) - 1

\* the text of a TLA+ string made of the characters of s
RECURSIVE Str(_)
Str(s) == IF s = <<>> THEN "" ELSE Head(s) \o Str(Tail(s))

\* s.split(sep): the fields between the occurrences of the character sep
RECURSIVE SplitFrom(_, _, _)
SplitFrom(s, sep, field) ==
    IF s = <<>> THEN <<field>>
    ELSE IF Head(s) = sep THEN <<field>> \o SplitFrom(Tail(s), sep, <<>>)
    ELSE SplitFrom(Tail(s), sep, Append(field, Head(s)))
Split(s, sep) == SplitFrom(s, sep, <<>>)

\* s.strip() for the one whitespace character of the inputs
RECURSIVE LStrip(_)
LStrip(s) == IF s # <<>> /\ Head(s) = " " THEN LStrip(Tail(s)) ELSE s
RECURSIVE RStrip(_)
RStrip(s) == IF s # <<>> /\ s[Len(s)] = " " THEN RStrip(SubSeq(s, 1, Len(s) - 1)) ELSE s
Strip(s) == RStrip(LStrip(s))

\* int(s): surrounding whitespace is dropped, one sign is allowed, and
\* what is left must be one or more decimal digits; anything else raises
\* ValueError
Unsigned(s) == IF s # <<>> /\ Head(s) \in {"-", "+"} THEN Tail(s) ELSE s
IntOK(s) ==
    LET d == Unsigned(Strip(s)) IN
    d # <<>> /\ \A k \in 1 .. Len(d) : IsDigit(d[k])
RECURSIVE NatValue(_)
NatValue(d) ==
    IF d = <<>> THEN 0
    ELSE 10 * NatValue(SubSeq(d, 1, Len(d) - 1)) + DigitValue(d[Len(d)])
IntValue(s) ==
    LET t == Strip(s) IN
    IF t # <<>> /\ Head(t) = "-" THEN 0 - NatValue(Unsigned(t)) ELSE NatValue(Unsigned(t))

\* s.upper()
UpperChar(c) ==
    CASE c = "x" -> "X"
      [] c = "o" -> "O"
      [] c = "a" -> "A"
      [] OTHER -> c
\* the line taken as typed
Upper_Identity(s) == s
Upper(s) == [k \in 1 .. Len(s) |-> UpperChar(s[k])]

(***************************************************************************)
(* The lines typed at the prompts.                                         *)
(***************************************************************************)
\* str(n)
RECURSIVE NatToStr(_)
NatToStr(n) == IF n < 10 THEN <<Digits[n + 1]>> ELSE NatToStr(n \div 10) \o <<Digits[(n % 10) + 1]>>
IntToStr(n) == IF n < 0 THEN <<"-">> \o NatToStr(0 - n) ELSE NatToStr(n)

\* ",".join(fields)
RECURSIVE Join(_)
Join(fields) ==
    IF Len(fields) = 1 THEN fields[1]
    ELSE fields[1] \o <<",">> \o Join(Tail(fields))

IntTokens == {IntToStr(n) : n \in (0 - MaxOver) .. (2 + MaxOver)}
JunkTokens == {<<"a">>, <<>>, <<" ", "1">>, <<"+", "2">>}
Tokens == IntTokens \cup JunkTokens
ExtraTokens == {<<"0">>, <<"a">>}

\* the lines typed at the move prompt: one or two fields of any token,
\* and longer lines of the two extra tokens
MoveInputs ==
    {Join(f) : f \in UNION {[1 .. n -> Tokens] : n \in 1 .. 2}}
    \cup {Join(f) : f \in UNION {[1 .. n -> ExtraTokens] : n \in 3 .. MaxFields}}

\* the lines typed at the mark prompt
MarkInputs ==
    {<<"X">>, <<"x">>, <<"O">>, <<"o">>, <<"A">>, <<"a">>, <<"1">>, <<"0">>,
     <<>>, <<"X", "O">>, <<" ", "X">>, <<"o", " ">>}

\* the names typed at the name prompts: the program only stores and prints
\* them, and two different names tell the announced player apart
Player1Names == {"Ann"}
Player2Names == {"Bob"}

(***************************************************************************)
(* handle_player_turn                                                      *)
(***************************************************************************)
\* x[k] = v on a list of length 3 (k in range)
ListSet(x, k, v) == [x EXCEPT ![IF k < 0 THEN k + 3 + 1 ELSE k + 1] = v]

\* the accepted move without its write
SetCell_NoWrite(b, i, j, mark) == b

\* board[pos_i][pos_j] = mark
SetCell(b, i, j, mark) == ListSet(b, i, ListSet(ListGet(b, i), j, mark))

\* lines 72-74: split, unpack into two names, int() of each; a ValueError
\* from any of the three is ok = FALSE
ParseMove(player_input) ==
    LET fields == Split(player_input, ",") IN
    IF Len(fields) # 2 THEN [ok |-> FALSE, pos |-> <<>>]
    ELSE IF ~IntOK(fields[1]) \/ ~IntOK(fields[2]) THEN [ok |-> FALSE, pos |-> <<>>]
    ELSE [ok |-> TRUE, pos |-> <<IntValue(fields[1]), IntValue(fields[2])>>]

\* line 76
InRange(pos_i, pos_j) == 0 <= pos_i /\ pos_i <= 2 /\ 0 <= pos_j /\ pos_j <= 2

\* lines 76-84 without the test of line 79
CheckMove_NoOccupancy(pos, b) ==
    IF ~InRange(pos[1], pos[2])
        THEN [kind |-> "range", read |-> None]
    ELSE [kind |-> "accept", read |-> None]

\* lines 76-84 with only the upper bounds tested in line 76
CheckMove_NoLowerBound(pos, b) ==
    IF ~(pos[1] <= 2 /\ pos[2] <= 2)
        THEN [kind |-> "range", read |-> None]
    ELSE IF ~(ListIndexOK(pos[1]) /\ ListIndexOK(pos[2]))
        THEN [kind |-> "IndexError", read |-> pos]
    ELSE IF Cell(b, pos[1], pos[2]) # None
        THEN [kind |-> "occupied", read |-> pos]
    ELSE [kind |-> "accept", read |-> pos]

\* lines 76-84 with the test of line 79 made before the test of line 76
CheckMove_OccupancyFirst(pos, b) ==
    IF ~(ListIndexOK(pos[1]) /\ ListIndexOK(pos[2]))
        THEN [kind |-> "IndexError", read |-> pos]
    ELSE IF Cell(b, pos[1], pos[2]) # None
        THEN [kind |-> "occupied", read |-> pos]
    ELSE IF ~InRange(pos[1], pos[2])
        THEN [kind |-> "range", read |-> pos]
    ELSE [kind |-> "accept", read |-> pos]

\* lines 76-84 once the line has parsed to pos, on board contents b: what
\* the pass ends with ("range" or "occupied" for the message printed before
\* the next pass, "accept" for the write and the break, "IndexError" for
\* the exception no handler catches) and the cell the pass read (None when
\* it read none)
CheckMove(pos, b) ==
    IF ~InRange(pos[1], pos[2])
        THEN [kind |-> "range", read |-> None]
    ELSE IF ~(ListIndexOK(pos[1]) /\ ListIndexOK(pos[2]))
        THEN [kind |-> "IndexError", read |-> pos]
    ELSE IF Cell(b, pos[1], pos[2]) # None
        THEN [kind |-> "occupied", read |-> pos]
    ELSE [kind |-> "accept", read |-> pos]

\* ParseMove of every line of the model, computed once
ParsedMoves == [player_input \in MoveInputs |-> ParseMove(player_input)]

\* one pass of the while loop of handle_player_turn on the line
\* player_input with board contents b
TurnPass(player_input, b) ==
    LET p == ParsedMoves[player_input] IN
    IF ~p.ok THEN [kind |-> "format", pos |-> <<>>, read |-> None]
    ELSE LET c == CheckMove(p.pos, b) IN
         [kind |-> c.kind, pos |-> p.pos, read |-> c.read]

\* player.mark of the player current_player refers to
MarkOf(player) == IF player = "player1" THEN player1_mark ELSE player2_mark

\* lines 69-86: one pass of the loop of handle_player_turn(current_player,
\* board) on the line player_input
HandlePlayerTurn(player_input) ==
    /\ pc = "turn"
    /\ LET r == TurnPass(player_input, board) IN
       IF r.kind = "accept"
       THEN /\ board' = SetCell(board, r.pos[1], r.pos[2], MarkOf(current_player))
            /\ console' = None
            /\ mover' = current_player
            /\ pc' = "moved"
       ELSE IF r.kind = "IndexError"
       THEN /\ pc' = "crashed"
            /\ UNCHANGED <<board, console, mover>>
       ELSE /\ console' = r.kind
            /\ UNCHANGED <<board, pc, mover>>
    /\ UNCHANGED <<player1_name, player1_mark, player2_name, player2_mark,
                   winner_attr, current_player, status_value, announced,
                   mark_errors, class_winner, other_winner_attr>>

(***************************************************************************)
(* setup                                                                   *)
(***************************************************************************)
\* line 90: player1_name = input(...)
ReadPlayer1Name ==
    /\ pc = "name1"
    /\ player1_name' \in Player1Names
    /\ pc' = "mark"
    /\ UNCHANGED <<player1_mark, player2_name, player2_mark, board,
                   winner_attr, current_player, status_value, console,
                   announced, mover, mark_errors, class_winner,
                   other_winner_attr>>

\* line 94: the test that ends the mark loop
MarkAccepted(mark) == mark = "X" \/ mark = "O"

\* lines 91-98: one line read at the mark prompt, upper-cased and tested
ReadMark(line) ==
    /\ pc = "mark"
    /\ MarkAccepted(Str(Upper(line))) \/ mark_errors < MaxMarkRetries
    /\ player1_mark' = Str(Upper(line))
    /\ IF MarkAccepted(player1_mark')
       THEN /\ pc' = "name2"
            /\ console' = None
            /\ mark_errors' = mark_errors
       ELSE /\ console' = "invalid_mark"
            /\ mark_errors' = mark_errors + 1
            /\ pc' = "mark"
    /\ UNCHANGED <<player1_name, player2_name, player2_mark, board,
                   winner_attr, current_player, status_value, announced,
                   mover, class_winner, other_winner_attr>>

\* line 100 with the test for X in place of the test for O
OtherMark_Same(mark) == IF mark = "X" THEN "X" ELSE "O"

\* line 100
OtherMark(mark) == IF mark = "O" THEN "X" ELSE "O"

\* lines 99-114: Player 2's name, the two players, the board, and the
\* first current_player
ReadPlayer2Name ==
    /\ pc = "name2"
    /\ player2_name' \in Player2Names
    /\ player2_mark' = OtherMark(player1_mark)
    /\ board' = GameBoardInit
    /\ winner_attr' = Unset
    /\ current_player' = "player1"
    /\ mark_errors' = 0
    /\ pc' = "loop"
    /\ UNCHANGED <<player1_name, player1_mark, status_value, console,
                   announced, mover, class_winner, other_winner_attr>>

\* line 115: while board.status == "Pending"
LoopTest ==
    /\ pc = "loop"
    /\ LET st == Status(board, winner_attr) IN
       /\ status_value' = st.value
       /\ winner_attr' = AssignWinner(st).instance
       /\ class_winner' = AssignWinner(st).class
       /\ pc' = IF st.value = "Pending" THEN "turn" ELSE "end"
    /\ UNCHANGED <<player1_name, player1_mark, player2_name, player2_mark,
                   board, current_player, console, announced, mover,
                   mark_errors, other_winner_attr>>

\* lines 117-122 without the break
CheckAfterMove_NoBreak ==
    /\ pc = "moved"
    /\ LET st == Status(board, winner_attr) IN
       /\ status_value' = st.value
       /\ winner_attr' = AssignWinner(st).instance
       /\ class_winner' = AssignWinner(st).class
    /\ pc' = "switch"
    /\ UNCHANGED <<player1_name, player1_mark, player2_name, player2_mark,
                   board, current_player, console, announced, mover,
                   mark_errors, other_winner_attr>>

\* lines 117-122: the board is printed; if board.status == "Complete": break
CheckAfterMove ==
    /\ pc = "moved"
    /\ LET st == Status(board, winner_attr) IN
       /\ status_value' = st.value
       /\ winner_attr' = AssignWinner(st).instance
       /\ class_winner' = AssignWinner(st).class
       /\ pc' = IF st.value = "Complete" THEN "end" ELSE "switch"
    /\ UNCHANGED <<player1_name, player1_mark, player2_name, player2_mark,
                   board, current_player, console, announced, mover,
                   mark_errors, other_winner_attr>>

\* lines 125-128 with player2 assigned in both branches
NextPlayer_Always2(player) == "player2"

\* lines 125-128
NextPlayer(player) == IF player = "player1" THEN "player2" ELSE "player1"

SwitchPlayer ==
    /\ pc = "switch"
    /\ current_player' = NextPlayer(current_player)
    /\ pc' = "loop"
    /\ UNCHANGED <<player1_name, player1_mark, player2_name, player2_mark,
                   board, winner_attr, status_value, console, announced,
                   mover, mark_errors, class_winner, other_winner_attr>>

\* the announcement without the test of board.winner
Announcement_NoDraw(w) ==
    [kind |-> "winner", name |-> IF player1_mark = w THEN player1_name ELSE player2_name]

\* the name taken from the wrong player
Announcement_Swapped(w) ==
    IF w # None
    THEN [kind |-> "winner", name |-> IF player1_mark = w THEN player2_name ELSE player1_name]
    ELSE [kind |-> "draw", name |-> None]

\* lines 130-134: the announcement
Announcement(w) ==
    IF w # None
    THEN [kind |-> "winner", name |-> IF player1_mark = w THEN player1_name ELSE player2_name]
    ELSE [kind |-> "draw", name |-> None]

Announce ==
    /\ pc = "end"
    /\ announced' = Announcement(ReadWinner(winner_attr))
    /\ pc' = "done"
    /\ UNCHANGED <<player1_name, player1_mark, player2_name, player2_mark,
                   board, winner_attr, current_player, status_value, console,
                   mover, mark_errors, class_winner, other_winner_attr>>

\* line 136: setup() is called; nothing is bound yet
Init ==
    /\ pc = "name1"
    /\ player1_name = None
    /\ player1_mark = None
    /\ player2_name = None
    /\ player2_mark = None
    /\ board = <<>>
    /\ winner_attr = Unset
    /\ current_player = None
    /\ status_value = None
    /\ console = None
    /\ mover = None
    /\ announced = [kind |-> None, name |-> None]
    /\ mark_errors = 0
    /\ class_winner = GameBoard_winner
    /\ other_winner_attr = NoInstance

Next ==
    \/ ReadPlayer1Name
    \/ \E line \in MarkInputs : ReadMark(line)
    \/ ReadPlayer2Name
    \/ LoopTest
    \/ \E player_input \in MoveInputs : HandlePlayerTurn(player_input)
    \/ CheckAfterMove
    \/ SwitchPlayer
    \/ Announce

Spec == Init /\ [][Next]_vars

(***************************************************************************)
(* The game with players who answer every prompt, sooner or later, with a  *)
(* line that is accepted.  The lines typed at the move prompt are the nine *)
(* cells and one line that is no position (a cell that is taken is         *)
(* rejected as well); at the mark prompt an x and a letter that is no      *)
(* mark.  Every step other than a read is the program's own and is taken   *)
(* once it can be; the reads are fair for the accepted lines only, so any  *)
(* number of rejected lines may be typed first.                            *)
(***************************************************************************)
LiveMoveInputs ==
    {Join(<<IntToStr(i), IntToStr(j)>>) : i \in Range3, j \in Range3} \cup {<<"a">>}
LiveMarkInputs == {<<"x">>, <<"A">>}

\* lines 91-96: the pass of the mark loop that breaks
AcceptedMark ==
    pc = "mark" /\ pc' = "name2" /\ \E line \in LiveMarkInputs : ReadMark(line)
\* lines 70-84: the pass of handle_player_turn that writes the cell
AcceptedMove ==
    /\ pc = "turn" /\ pc' = "moved"
    /\ \E player_input \in LiveMoveInputs : HandlePlayerTurn(player_input)

NextLive ==
    \/ ReadPlayer1Name
    \/ \E line \in LiveMarkInputs : ReadMark(line)
    \/ ReadPlayer2Name
    \/ LoopTest
    \/ \E player_input \in LiveMoveInputs : HandlePlayerTurn(player_input)
    \/ CheckAfterMove
    \/ SwitchPlayer
    \/ Announce

Fairness ==
    /\ WF_vars(ReadPlayer1Name)
    /\ WF_vars(AcceptedMark)
    /\ WF_vars(ReadPlayer2Name)
    /\ WF_vars(LoopTest)
    /\ WF_vars(AcceptedMove)
    /\ WF_vars(CheckAfterMove)
    /\ WF_vars(SwitchPlayer)
    /\ WF_vars(Announce)

SpecLive == Init /\ [][NextLive]_vars /\ Fairness

(***************************************************************************)
(* The status property on any board: a GameBoard is created, its cells     *)
(* are assigned directly (as test_game.py does with board[0][0] = "O"),    *)
(* and board.status is read once.                                          *)
(***************************************************************************)
Marks == {"X", "O"}
Boards == [1 .. 3 -> [1 .. 3 -> Marks \cup {None}]]

InitStatus ==
    /\ pc = "probe"
    /\ board \in Boards
    /\ winner_attr = Unset
    /\ player1_name = None
    /\ player1_mark = None
    /\ player2_name = None
    /\ player2_mark = None
    /\ current_player = None
    /\ status_value = None
    /\ console = None
    /\ mover = None
    /\ announced = [kind |-> None, name |-> None]
    /\ mark_errors = 0
    /\ class_winner = GameBoard_winner
    /\ other_winner_attr = NoInstance

\* board.status
ReadStatus ==
    /\ pc = "probe"
    /\ LET st == Status(board, winner_attr) IN
       /\ status_value' = st.value
       /\ winner_attr' = AssignWinner(st).instance
       /\ class_winner' = AssignWinner(st).class
    /\ pc' = "probed"
    /\ UNCHANGED <<player1_name, player1_mark, player2_name, player2_mark,
                   board, current_player, console, mover, announced,
                   mark_errors, other_winner_attr>>

NextStatus == ReadStatus

SpecStatus == InitStatus /\ [][NextStatus]_vars

(***************************************************************************)
(* handle_player_turn on its own, as TestGameInputValidation calls it:     *)
(* setUp makes a board, player1 with X and player2 with O; cells may be    *)
(* assigned "O" before the call (test_occupied_cell_move_then_valid);      *)
(* then handle_player_turn(player1, board) runs until a line is accepted.  *)
(***************************************************************************)
\* at most this many cells are assigned before the call
MaxPreset == 2

PresetBoards ==
    {b \in [1 .. 3 -> [1 .. 3 -> {None, "O"}]] :
        Cardinality({c \in Range3 \X Range3 : Cell(b, c[1], c[2]) # None}) <= MaxPreset}

InitTurn ==
    /\ pc = "turn"
    /\ board \in PresetBoards
    /\ winner_attr = Unset
    /\ player1_name = "TestPlayer1"
    /\ player1_mark = "X"
    /\ player2_name = "TestPlayer2"
    /\ player2_mark = "O"
    /\ current_player = "player1"
    /\ status_value = None
    /\ console = None
    /\ mover = None
    /\ announced = [kind |-> None, name |-> None]
    /\ mark_errors = 0
    /\ class_winner = GameBoard_winner
    /\ other_winner_attr = NoInstance

NextTurn == \E player_input \in MoveInputs : HandlePlayerTurn(player_input)

SpecTurn == InitTurn /\ [][NextTurn]_vars

(***************************************************************************)
(* Two GameBoard instances of the one class, as when each test's setUp     *)
(* makes its own board: status is read on the first, whose cells are any;  *)
(* the second is made by GameBoard() before or after that read.            *)
(***************************************************************************)
InitBoards ==
    /\ InitStatus
    /\ other_winner_attr = NoInstance

\* lines 19-25: GameBoard() for the second instance; __init__ binds cells
\* only, so the instance has no winner attribute of its own
CreateOther ==
    /\ other_winner_attr = NoInstance
    /\ other_winner_attr' = Unset
    /\ UNCHANGED <<pc, player1_name, player1_mark, player2_name, player2_mark,
                   board, winner_attr, current_player, status_value, console,
                   mover, announced, mark_errors, class_winner>>

NextBoards == ReadStatus \/ CreateOther

SpecBoards == InitBoards /\ [][NextBoards]_vars

(***************************************************************************)
(* What the properties speak of, stated on coordinates and independently   *)
(* of the program's labels and tables.                                     *)
(***************************************************************************)
Cells == Range3 \X Range3
At(b, c) == b[c[1] + 1][c[2] + 1]

\* the 3 rows, the 3 columns and the 2 diagonals
WinLines ==
    {{<<r, k>> : k \in Range3} : r \in Range3}
    \cup {{<<k, c>> : k \in Range3} : c \in Range3}
    \cup {{<<k, k>> : k \in Range3}, {<<k, 2 - k>> : k \in Range3}}

Owns(b, mark) == \E l \in WinLines : \A c \in l : At(b, c) = mark
SomeLineOwned(b) == \E mark \in Marks : Owns(b, mark)
HasEmpty(b) == \E c \in Cells : At(b, c) = None
Occupied(b) == {c \in Cells : At(b, c) # None}
CellsOf(b, mark) == {c \in Cells : At(b, c) = mark}

\* C1: on every board where one mark owns a win line and the other mark
\* owns none, status returns Complete and records that mark as winner
C1_LineWins ==
    pc = "probed" =>
        \A mark \in Marks :
            (Owns(board, mark) /\ \A other \in Marks \ {mark} : ~Owns(board, other))
                => (status_value = "Complete" /\ ReadWinner(winner_attr) = mark)

\* a board with a line of X, none of O, and cells of both marks and empty
\* cells elsewhere, after status was read
C1_Witness ==
    /\ pc = "probed"
    /\ Owns(board, "X") /\ ~Owns(board, "O")
    /\ CellsOf(board, "O") # {} /\ HasEmpty(board)
    /\ Cardinality(CellsOf(board, "X")) > 3
    /\ status_value = "Complete"

\* C2: on every full board with no owned win line, status returns Complete
\* and the winner stays unset
C2_FullBoardDraw ==
    (pc = "probed" /\ ~HasEmpty(board) /\ ~SomeLineOwned(board))
        => (status_value = "Complete" /\ ReadWinner(winner_attr) = None)

C2_Witness ==
    /\ pc = "probed"
    /\ ~HasEmpty(board) /\ ~SomeLineOwned(board)
    /\ status_value = "Complete"

\* C3: status returns Pending exactly when no win line is owned and some
\* cell is Empty, and Complete in every other case
C3_PendingIff ==
    pc = "probed" =>
        /\ status_value \in {"Pending", "Complete"}
        /\ status_value = "Pending" <=> (~SomeLineOwned(board) /\ HasEmpty(board))

C3_Witness ==
    /\ pc = "probed"
    /\ status_value = "Pending"
    /\ Cardinality(Occupied(board)) = 8

(***************************************************************************)
(* Properties of handle_player_turn and of a game played through setup().  *)
(***************************************************************************)
SetupPcs == {"name1", "mark", "name2"}
NumOccupied(b) == Cardinality(Occupied(b))
With(b, c, mark) == [b EXCEPT ![c[1] + 1][c[2] + 1] = mark]
GameOver(b) == SomeLineOwned(b) \/ ~HasEmpty(b)

\* the line "r,c" naming cell c
LineOf(c) == Join(<<IntToStr(c[1]), IntToStr(c[2])>>)

\* The lines of the model by how they were typed: an integer text with
\* the integer it denotes, the lines of two integer texts with the position
\* they denote, and every other line.
IntTexts ==
    {[text |-> IntToStr(n), val |-> n] : n \in (0 - MaxOver) .. (2 + MaxOver)}
    \cup {[text |-> <<" ", "1">>, val |-> 1], [text |-> <<"+", "2">>, val |-> 2]}
TwoInts ==
    {[line |-> Join(<<a.text, b.text>>), pos |-> <<a.val, b.val>>] : a \in IntTexts, b \in IntTexts}
Malformed == MoveInputs \ {t.line : t \in TwoInts}

\* C4: a freshly created board has all 9 cells Empty, its status is
\* Pending, and no winner is recorded
C4_FreshBoard ==
    /\ (pc = "loop" /\ status_value = None) =>
          /\ Len(board) = 3 /\ \A r \in 1 .. 3 : Len(board[r]) = 3
          /\ \A c \in Cells : At(board, c) = None
          /\ ReadWinner(winner_attr) = None
          /\ Status(board, winner_attr).value = "Pending"
    /\ (pc = "turn" /\ mover = None) =>
          /\ \A c \in Cells : At(board, c) = None
          /\ status_value = "Pending"
          /\ ReadWinner(winner_attr) = None

\* the first status of the fresh board has been read
C4_Witness == pc = "turn" /\ mover = None /\ status_value = "Pending"

\* C5: an accepted move writes the acting player's mark into exactly the
\* targeted cell, which was Empty, and leaves the other 8 cells alone; a
\* non-Empty cell never changes.  (A step changes the board only by such a
\* move, and the step is the one the line naming the written cell makes.)
C5_OneCellPerMove ==
    [][/\ (pc = "turn" /\ pc' = "moved") => board' # board
       /\ (board # <<>> /\ board' # board) =>
              /\ pc = "turn" /\ pc' = "moved"
              /\ \E c \in Cells :
                    /\ At(board, c) = None
                    /\ board' = With(board, c, MarkOf(current_player))
                    /\ HandlePlayerTurn(LineOf(c))
    ]_vars

\* an accepted move on a board that already holds marks of both players
C5_Witness ==
    /\ pc = "moved"
    /\ CellsOf(board, "X") # {} /\ CellsOf(board, "O") # {}
    /\ NumOccupied(board) >= 4

\* C6: a rejected line (malformed, out of range, or naming an occupied
\* cell) leaves the board and the current player unchanged and the same
\* player is prompted again; the call returns only with exactly one mark
\* placed
C6_RejectedKeepsTurn ==
    [][pc = "turn" =>
        /\ \A line \in Malformed :
              HandlePlayerTurn(line)
                  => (board' = board /\ current_player' = current_player
                      /\ pc' = "turn" /\ mover' = mover)
        /\ \A t \in TwoInts :
              (HandlePlayerTurn(t.line) /\ (t.pos \notin Cells \/ At(board, t.pos) # None))
                  => (board' = board /\ current_player' = current_player
                      /\ pc' = "turn" /\ mover' = mover)
        /\ pc' # "turn" =>
              /\ pc' = "moved"
              /\ NumOccupied(board') = NumOccupied(board) + 1
              /\ current_player' = current_player
    ]_vars

\* the player is prompted again after a line naming an occupied cell
C6_Witness ==
    /\ pc = "turn"
    /\ console = "occupied"
    /\ NumOccupied(board) >= 2

\* C7: the checks are made in the order format, range, occupancy and the
\* first failing one is reported: an out-of-range position is a range error
\* and no cell is read or written; an occupancy error is reported only for
\* an in-range position of a non-Empty cell
C7_ValidationOrder ==
    [][pc = "turn" =>
        /\ \A line \in Malformed :
              HandlePlayerTurn(line)
                  => (console' = "format" /\ pc' = "turn"
                      /\ TurnPass(line, board).read = None)
        /\ \A t \in TwoInts :
              HandlePlayerTurn(t.line) =>
                  IF t.pos \notin Cells
                      THEN /\ console' = "range" /\ pc' = "turn"
                           /\ board' = board
                           /\ TurnPass(t.line, board).read = None
                  ELSE IF At(board, t.pos) # None
                      THEN console' = "occupied" /\ pc' = "turn" /\ board' = board
                  ELSE console' = None /\ pc' = "moved"
    ]_vars

\* a range error was reported on a board with marks in the last row, which
\* a negative row would index
C7_Witness ==
    /\ pc = "turn"
    /\ console = "range"
    /\ \E k \in Range3 : At(board, <<2, k>>) # None

\* C8 as claimed: after every accepted move, current_player is the player
\* who did not make that move
C8_AlternatesAfterEveryMove ==
    (pc \in {"loop", "turn", "end", "done"} /\ mover # None) => current_player # mover

\* C8 as amended: current_player starts as player1; after an accepted move
\* that leaves the status Pending it becomes the player who did not make
\* that move; after the accepted move that makes the status Complete it is
\* still the player who made it
C8_AlternatesWhilePending ==
    /\ (pc \in {"loop", "turn"} /\ mover = None) => current_player = "player1"
    /\ pc \in {"moved", "switch"} => current_player = mover
    /\ (pc \in {"loop", "turn"} /\ mover # None) =>
          (current_player # mover /\ current_player \in {"player1", "player2"})
    /\ (pc \in {"end", "done"} /\ mover # None) => current_player = mover

\* the turns alternated up to a winning move of player2, after which
\* current_player is still player2
C8_Witness ==
    /\ pc = "done"
    /\ mover = "player2"
    /\ current_player = "player2"
    /\ Owns(board, player2_mark)

\* C9: once an accepted move makes the status Complete (a win or a full
\* board) the loop stops at once: no further move is requested and the
\* board never changes again
C9_CompleteIsFinal ==
    [][/\ (pc = "moved" /\ GameOver(board)) =>
              (pc' = "end" /\ board' = board /\ status_value' = "Complete")
       /\ (pc \in {"end", "done"} \/ status_value = "Complete") =>
              (pc' = "done" /\ board' = board /\ status_value' = "Complete")
       /\ (pc' = "turn" /\ pc # "turn") => ~GameOver(board')
    ]_vars

\* the loop was left after a winning move with cells still Empty
C9_Witness ==
    /\ pc = "done"
    /\ status_value = "Complete"
    /\ SomeLineOwned(board) /\ HasEmpty(board)

\* C10: after setup Player 1's mark is the upper-cased accepted line, X or
\* O, Player 2's mark is the other one, and the marks stay as they are
C10_MarksDistinct ==
    [][/\ pc = "mark" =>
              /\ \A line \in {<<"X">>, <<"x">>} :
                    ReadMark(line) => (player1_mark' = "X" /\ pc' = "name2")
              /\ \A line \in {<<"O">>, <<"o">>} :
                    ReadMark(line) => (player1_mark' = "O" /\ pc' = "name2")
       /\ pc' \notin SetupPcs =>
              /\ player1_mark' \in Marks
              /\ player2_mark' \in Marks \ {player1_mark'}
       /\ pc \notin SetupPcs =>
              (player1_mark' = player1_mark /\ player2_mark' = player2_mark)
    ]_vars

\* Player 1 typed o or O and the game is under way
C10_Witness ==
    /\ pc = "turn"
    /\ player1_mark = "O" /\ player2_mark = "X"
    /\ NumOccupied(board) >= 1

\* the lines that are X or O when case is ignored
IsXO(line) == line \in {<<"X">>, <<"x">>, <<"O">>, <<"o">>}

\* C11: at the mark prompt a line that is not X or O (case ignored) prints
\* one more invalid-mark error and leaves setup at the mark prompt, with no
\* second player, no board and no turn; a line that is X or O prints none
\* and setup goes on; so the errors printed are as many as the invalid lines
C11_InvalidMarkReprompts ==
    [][pc = "mark" =>
          \A line \in MarkInputs :
              ReadMark(line) =>
                  IF IsXO(line)
                  THEN /\ pc' = "name2"
                       /\ mark_errors' = mark_errors
                       /\ console' # "invalid_mark"
                  ELSE /\ pc' = "mark"
                       /\ mark_errors' = mark_errors + 1
                       /\ console' = "invalid_mark"
                       /\ player2_name' = None /\ player2_mark' = None
                       /\ board' = <<>> /\ current_player' = None
    ]_vars

\* two lines were rejected and then a mark was accepted
C11_Witness ==
    /\ pc = "name2"
    /\ mark_errors = 2
    /\ player1_mark \in Marks

Players == {"player1", "player2"}
NameOf(player) == IF player = "player1" THEN player1_name ELSE player2_name

\* C12: nothing is announced before the game has ended; at the end a winner
\* is announced exactly when some win line is owned by one mark, the name
\* announced is that of the player whose mark owns a line, otherwise the
\* board is full and a draw is announced; no second announcement can follow
C12_AnnouncementMatchesBoard ==
    /\ pc # "done" => announced = [kind |-> None, name |-> None]
    /\ pc = "done" =>
          /\ announced.kind \in {"winner", "draw"}
          /\ announced.kind = "winner" <=> SomeLineOwned(board)
          /\ announced.kind = "winner" =>
                \E p \in Players :
                    Owns(board, MarkOf(p)) /\ announced.name = NameOf(p)
          /\ announced.kind = "draw" =>
                (~HasEmpty(board) /\ announced.name = None)
          /\ ~ENABLED Announce

\* Player 2 was announced as winner
C12_Witness ==
    /\ pc = "done"
    /\ announced = [kind |-> "winner", name |-> player2_name]
    /\ Owns(board, player2_mark)

\* C13: once the ninth accepted move has filled the board and completed a
\* win line for a mark, the game goes to its end (no switch, no further
\* turn), the status read is Complete with that mark recorded as winner,
\* and the player of that mark is announced as winner, not a draw
C13_LastCellWinIsAWin ==
    (board # <<>> /\ ~HasEmpty(board) /\ SomeLineOwned(board)) =>
        \A p \in Players :
            Owns(board, MarkOf(p)) =>
                /\ pc \in {"moved", "end", "done"}
                /\ pc = "end" =>
                      /\ status_value = "Complete"
                      /\ ReadWinner(winner_attr) = MarkOf(p)
                /\ pc = "done" =>
                      announced = [kind |-> "winner", name |-> NameOf(p)]

\* the game ended on a full board with a win line, and a winner was announced
C13_Witness ==
    /\ pc = "done"
    /\ NumOccupied(board) = 9
    /\ SomeLineOwned(board)
    /\ announced.kind = "winner"

\* C14: on every board reached by playing from a fresh board, at most one
\* of the two marks owns a complete win line
C14_AtMostOneOwner ==
    board # <<>> => ~(Owns(board, "X") /\ Owns(board, "O"))

\* one mark owns a line on a board where the other mark holds three cells
C14_Witness ==
    /\ board # <<>>
    /\ \E mark \in Marks :
          /\ Owns(board, mark)
          /\ Cardinality(CellsOf(board, CHOOSE m \in Marks : m # mark)) >= 3

\* C16: in every state of a game the winner read from the board is set
\* only if the status read last is Complete, the board's game is over and
\* the recorded mark owns a win line; while the status read last is Pending,
\* and while no line is owned, the winner is unset
C16_WinnerOnlyWhenComplete ==
    board # <<>> =>
        LET w == ReadWinner(winner_attr) IN
        /\ w # None =>
              /\ status_value = "Complete"
              /\ GameOver(board)
              /\ w \in Marks /\ Owns(board, w)
        /\ status_value = "Pending" => w = None
        /\ ~SomeLineOwned(board) => w = None

\* the winner is recorded and not yet announced
C16_Witness ==
    /\ pc = "end"
    /\ ReadWinner(winner_attr) \in Marks
    /\ status_value = "Complete"

\* the win lines in the order row 0, row 1, row 2, column 0, column 1,
\* column 2, main diagonal, anti-diagonal
LineOrder ==
    [k \in 1 .. 8 |->
        IF k <= 3 THEN {<<k - 1, c>> : c \in Range3}
        ELSE IF k <= 6 THEN {<<r, k - 4>> : r \in Range3}
        ELSE IF k = 7 THEN {<<d, d>> : d \in Range3}
        ELSE {<<d, 2 - d>> : d \in Range3}]
OwnsLine(b, mark, l) == \A c \in l : At(b, c) = mark
\* the mark that owns the first owned line of LineOrder
FirstOwner(b) ==
    LET owned == {k \in 1 .. 8 : \E mark \in Marks : OwnsLine(b, mark, LineOrder[k])}
        first == CHOOSE k \in owned : \A j \in owned : k <= j
    IN  CHOOSE mark \in Marks : OwnsLine(b, mark, LineOrder[first])

\* C15: on a board on which both marks own complete lines, status is
\* Complete and records as winner the mark that owns the first fully owned
\* line in the order rows 0-2, columns 0-2, main diagonal, anti-diagonal
C15_FirstLineInOrderWins ==
    (pc = "probed" /\ Owns(board, "X") /\ Owns(board, "O")) =>
        /\ status_value = "Complete"
        /\ ReadWinner(winner_attr) = FirstOwner(board)

\* X owns row 0 and O owns row 1: X is recorded
C15_Witness ==
    /\ pc = "probed"
    /\ OwnsLine(board, "X", LineOrder[1])
    /\ OwnsLine(board, "O", LineOrder[2])
    /\ ReadWinner(winner_attr) = "X"

\* cells with Player 1's mark minus cells with Player 2's mark
MarkDifference ==
    Cardinality(CellsOf(board, player1_mark)) - Cardinality(CellsOf(board, player2_mark))
\* the game is not over and the next move prompted for is the given player's:
\* the current player before the move, the other one between an accepted
\* move and the switch
NextToMove(player) ==
    /\ ~GameOver(board)
    /\ \/ pc \in {"loop", "turn"} /\ current_player = player
       \/ pc \in {"moved", "switch"} /\ current_player # player

\* C18 as stated: the difference is 0 or 1, and it is 0 exactly when the game
\* is Pending with Player 1 next to move
C18_ZeroIffPlayer1NextInPending ==
    board # <<>> =>
        /\ MarkDifference \in {0, 1}
        /\ MarkDifference = 0 <=> NextToMove("player1")

\* C18 amended: the difference is 0 or 1 in every state of a game, and
\* while the game is Pending it is 0 exactly when Player 1 is next to move
\* (and 1 exactly when Player 2 is)
C18_DifferenceTracksTurn ==
    board # <<>> =>
        /\ MarkDifference \in {0, 1}
        /\ ~GameOver(board) =>
              /\ MarkDifference = 0 <=> NextToMove("player1")
              /\ MarkDifference = 1 <=> NextToMove("player2")

\* Player 2 is prompted with the difference at 1 after five accepted moves
C18_Witness ==
    /\ pc = "turn"
    /\ current_player = "player2"
    /\ MarkDifference = 1
    /\ NumOccupied(board) = 5

\* the cells in which two boards differ
Changed(b1, b2) == {c \in Cells : At(b1, c) # At(b2, c)}

\* C19: the accepted move after which some line is owned was made by the
\* player whose mark owns it, every owned line contains the cell of that
\* move, and when a winner is announced it is the name of the player who
\* made the last accepted move
C19_WinnerMadeLastMove ==
    [][/\ (board # <<>> /\ board' # board /\ SomeLineOwned(board')) =>
              /\ mover' = current_player
              /\ \A mark \in Marks : \A l \in WinLines :
                    (\A c \in l : At(board', c) = mark) =>
                        /\ mark = MarkOf(current_player)
                        /\ Changed(board, board') \subseteq l
                        /\ Changed(board, board') # {}
       /\ (pc = "end" /\ pc' = "done" /\ announced'.kind = "winner") =>
              /\ announced'.name = NameOf(mover)
              /\ Owns(board, MarkOf(mover))
              /\ ~Owns(board, MarkOf(NextPlayer(mover)))
    ]_vars

\* Player 1 was announced as winner after the move that filled a line
C19_Witness ==
    /\ pc = "done"
    /\ mover = "player1"
    /\ announced = [kind |-> "winner", name |-> player1_name]
    /\ HasEmpty(board)

\* C20: whatever status recorded on the first instance, the class
\* attribute keeps the value it was created with and the winner read from
\* the second instance, made before or after the read, is unset
C20_WinnerIsPerInstance ==
    /\ class_winner = None
    /\ other_winner_attr # NoInstance => ReadWinner(other_winner_attr) = None

\* a winner is recorded on the first instance and a second instance exists
C20_Witness ==
    /\ pc = "probed"
    /\ winner_attr \in Marks
    /\ other_winner_attr = Unset
    /\ ReadWinner(other_winner_attr) = None

\* C17: when every prompt is answered with an accepted line sooner or
\* later, every call of handle_player_turn returns with a move made, and
\* the game reaches its end, where the status is Complete and the cells
\* written, one per accepted move, are at least 5 and at most 9
C17_GameTerminates ==
    /\ (pc = "turn") ~> (pc = "moved")
    /\ <>(/\ pc = "done"
          /\ status_value = "Complete"
          /\ NumOccupied(board) \in 5 .. 9)

\* the shortest game has ended: five accepted moves
C17_Witness ==
    /\ pc = "done"
    /\ status_value = "Complete"
    /\ NumOccupied(board) = 5

=============================================================================
